---- MODULE Spec2Model ----
(***************************************************************************)
(* Model of the geospatial delivery service: the synthetic grid generator  *)
(* (backend/data_generator.py) and the RPC handlers that deliver its       *)
(* output as single responses, chunked streams and a live stream           *)
(* (backend/grpc_server.py).                                               *)
(*                                                                         *)
(* One call is in flight at a time.  A generated point is represented by   *)
(* its index in the generated sequence, so a payload is the half-open      *)
(* index range [lo, hi) that a Python slice of that sequence returns.      *)
(* Time is counted in milliseconds.                                        *)
(***************************************************************************)
EXTENDS Integers, Sequences, FiniteSets, TLC

(***************************************************************************)
(* Program constants                                                       *)
(***************************************************************************)
chunk_size == 25000

StreamMillis == 30000

DefaultMaxPoints == 1000

DefaultResolution == 20

DefaultPointsPerSecond == 5

\* GetDatasetData: request.page_size or 100
DefaultPageSize == 100

\* GetDatasetData: if request.page_size <= 15000
BoundaryPageLimit == 15000

\* serve: futures.ThreadPoolExecutor(max_workers=10)
max_workers == 10

\* projects_pb2.ColumnType as ProcessDataset stores it with
\* int(mapping.column_type)
COLUMN_TYPE_NUMERIC == 1

COLUMN_TYPE_CATEGORICAL == 2

COLUMN_TYPE_UNUSED == 3

(***************************************************************************)
(* Bounds of the model                                                     *)
(***************************************************************************)
\* requests ask for up to MaxChunks chunks' worth of points
MaxChunks == 3

\* requested live-stream rates are -1, 0 (unset) and 1..MaxRate
MaxRate == 2

\* uploaded files hold up to MaxRows data rows
MaxRows == 2

\* up to MaxWaiting calls wait for a worker
MaxWaiting == 2

(***************************************************************************)
(* Request field values (protobuf int32 fields: 0 means unset, negative    *)
(* values are representable and reach the handlers unvalidated)            *)
(***************************************************************************)
MaxPointsValues ==
    {-5, 0, 1, 16, 17, 25, 26}
    \cup { k * chunk_size + d : k \in 1..(MaxChunks - 1), d \in {-1, 0, 1, 10000} }

ResolutionValues == {-3, 0, 4, 5, 300}

RateValues == {-1, 0} \cup (1..MaxRate)

\* request.data_types: a list of field kinds, known or not
DataTypesValues ==
    { << >>, << "elevation" >>, << "noise" >>, << "temperature", "noise" >>,
      << "humidity", "pressure", "wind" >> }

\* request.bounds: a proper box, a box of zero latitude span, a box of zero
\* longitude span, and a box whose north-east corner lies south of its
\* south-west corner
ProperBounds == [ lat_min |-> 0, lat_max |-> 10, lng_min |-> 0, lng_max |-> 10 ]

BoundsValues ==
    { ProperBounds,
      [ lat_min |-> 5, lat_max |-> 5, lng_min |-> 0, lng_max |-> 10 ],
      [ lat_min |-> 0, lat_max |-> 10, lng_min |-> 5, lng_max |-> 5 ],
      [ lat_min |-> 10, lat_max |-> 0, lng_min |-> 0, lng_max |-> 10 ] }

BatchRpcs == {"GetBatchData", "GetBatchDataOptimized", "GetBatchDataColumnar"}

ChunkedRpcs == {"GetBatchDataStreamed", "GetBatchDataColumnarStreamed"}

ColumnarRpcs == {"GetBatchDataColumnar", "GetBatchDataColumnarStreamed"}

VARIABLES
    pc,                 \* "idle", "chunking", "streaming", "done"
    rpc,                \* the RPC in flight ("none" when idle)
    request,            \* the raw request fields
    max_points,         \* handler local: max_points passed to the generator
    resolution,         \* handler local: resolution passed to the generator
    max_points_per_second, \* handler local of StreamData
    actual_resolution,  \* generator local
    total_points,       \* number of points the generator returned
    total_chunks,       \* handler local
    chunk_num,          \* loop index of the chunk loop
    out,                \* messages emitted so far on this call
    status,             \* "OK" or "INTERNAL"
    details,            \* context.set_details: "" until an except clause runs
    active,             \* context.is_active(): the client's channel is open
    closed_at,          \* Len(out) when the channel closed, -1 while open
    elapsed,            \* generator: time.time() - start_time, in ms
    point_count,        \* generator local of generate_streaming_data
    gen,                \* generator of generate_streaming_data: "new" (not
                        \* started), "yielded" (suspended at yield, the
                        \* handler holds the point), "consumed" (the handler
                        \* is done with the point and asks for the next)
    replies,            \* client side: the reply of each single-response
                        \* batch RPC to one and the same request
    projects,           \* table projects: the ids of its rows
    files,              \* table files: id -> project_id
    datasets,           \* table datasets: id -> file_id, total_rows,
                        \* column_mappings
    dataset_data,       \* table dataset_data: id -> rows by row_index, each
                        \* row a JSON object field -> text
    processing,         \* the ProcessDataset call between its two commits
    dataset_reply,      \* the last reply of a dataset operation
    loaded_csv_data,    \* the module global of grpc_server.py: the result of
                        \* the last SendFile
    stats_call,         \* the GetLoadedDataStats call in flight: its position
                        \* and locals
    executing,          \* worker pool: the calls that hold a worker thread,
                        \* by kind
    waiting             \* worker pool: the queue of calls without a worker

vars == << pc, rpc, request, max_points, resolution, max_points_per_second,
           actual_resolution,
           total_points, total_chunks, chunk_num, out, status, details, active,
           closed_at, elapsed, point_count, gen, replies,
           projects, files, datasets, dataset_data, processing, dataset_reply,
           loaded_csv_data, stats_call, executing, waiting >>

(***************************************************************************)
(* Arithmetic helpers                                                      *)
(***************************************************************************)
Min(a, b) == IF a <= b THEN a ELSE b

Max(a, b) == IF a >= b THEN a ELSE b

RECURSIVE IsqrtSearch(_, _, _)
IsqrtSearch(n, lo, hi) ==
    IF lo >= hi THEN lo
    ELSE LET mid == (lo + hi + 1) \div 2
         IN  IF mid * mid <= n THEN IsqrtSearch(n, mid, hi)
                               ELSE IsqrtSearch(n, lo, mid - 1)

\* int(math.sqrt(n)) for n >= 0: the integer part of the square root
IntSqrt(n) == IsqrtSearch(n, 0, Min(n, 46340))

\* len(seq[start:stop]) and the range it selects, for a sequence of length len
\* and start, stop >= 0
SliceLo(len, start) == Min(start, len)

SliceHi(len, start, stop) == Max(Min(stop, len), Min(start, len))

\* len(seq[:n]) for any integer n (a negative n counts from the end)
PrefixLen(len, n) == IF n >= 0 THEN Min(n, len) ELSE Max(len + n, 0)

(***************************************************************************)
(* data_generator.py                                                       *)
(***************************************************************************)
\* the integer square root without the + 1
ActualResolutionNoRoundUp(mp, res) ==
    IF mp <= res * res THEN res
    ELSE Max(res, IntSqrt(mp))

\* the grid resolution chosen for a point budget
ActualResolution(mp, res) ==
    IF mp <= res * res THEN res
    ELSE Max(res, IntSqrt(mp) + 1)

\* a grid builder that accepts every resolution
GridNeverRaises(ares) == FALSE

\* np.linspace(lo, hi, num) raises ValueError for num < 0
GridRaises(ares) == ares < 0

\* generate_batch_data: the nested loop appends cells in row-major order
\* and breaks as soon as len(data_points) >= max_points
BatchCount(mp, ares) ==
    IF 0 >= mp THEN 0 ELSE Min(mp, ares * ares)

\* generate_columnar_data: mesh.flatten()[:max_points]
ColumnarCount(mp, ares) == PrefixLen(ares * ares, mp)

GeneratedCount(r, mp, ares) ==
    IF r \in ColumnarRpcs THEN ColumnarCount(mp, ares) ELSE BatchCount(mp, ares)

GenerationMethods == {"elevation", "temperature", "pressure", "noise", "sine_wave"}

Elements(seq) == { seq[i] : i \in DOMAIN seq }

\* data_types[0] if data_types else 'elevation'
PrimaryDataType(data_types) ==
    IF data_types = << >> THEN "elevation" ELSE data_types[1]

\* a lookup that has no default for an unknown kind
PrimaryMethodNoFallback(data_type) == data_type

\* self.generation_methods.get(data_type, self._generate_elevation_data)
PrimaryMethod(data_type) ==
    IF data_type \in GenerationMethods THEN data_type ELSE "elevation"

\* the field functions that compute (lat_mesh - lat_min) / lat_range
DividesByLatRange(method) ==
    method \in {"elevation", "temperature", "pressure", "sine_wave"}

\* the field functions that compute (lng_mesh - lng_min) / lng_range
DividesByLngRange(method) == method \in {"elevation", "pressure", "sine_wave"}

\* over a zero span the normalised coordinate is 0.0 / 0.0 at every cell:
\* numpy warns and yields NaN, and every value of the field is NaN
NonFiniteField(method, bounds) ==
    \/ DividesByLatRange(method) /\ bounds.lat_max = bounds.lat_min
    \/ DividesByLngRange(method) /\ bounds.lng_max = bounds.lng_min

\* the keys of columnar_data['additional_data']
AdditionalDataKeys(data_types) ==
    ({ data_types[i] : i \in 2..Len(data_types) } \cap GenerationMethods)
        \cup ({"elevation"} \ Elements(data_types))
        \cup ({"temperature"} \ Elements(data_types))

\* an auxiliary array that keeps every cell of the grid
AdditionalLenUntruncated(mp, ares) == ares * ares

\* additional_values.flatten()[:max_points]
AdditionalLen(mp, ares) == PrefixLen(ares * ares, mp)

BaseColumns == {"id", "x", "y", "z", "id_value"}

\* generate_columnar_data: the length of every array of columnar_data
ColumnarData(mp, ares, data_types) ==
    [ name \in BaseColumns \cup AdditionalDataKeys(data_types) |->
        IF name \in BaseColumns THEN ColumnarCount(mp, ares)
        ELSE AdditionalLen(mp, ares) ]

\* the length of every array the generator returns to the handler
GeneratedArrays(r, mp, ares, data_types) ==
    IF r \in ColumnarRpcs THEN ColumnarData(mp, ares, data_types)
    ELSE [ name \in {"data_points"} |-> BatchCount(mp, ares) ]

(***************************************************************************)
(* grpc_server.py: request defaults                                        *)
(***************************************************************************)
\* GetBatchData: request.max_points or 1000
\* GetBatchDataOptimized, GetBatchDataStreamed:
\*     request.max_points if request.max_points > 0 else 1000
\* GetBatchDataColumnar, GetBatchDataColumnarStreamed: request.max_points
HandlerMaxPoints(r, req) ==
    CASE r = "GetBatchData" ->
            IF req.max_points = 0 THEN DefaultMaxPoints ELSE req.max_points
      [] r \in {"GetBatchDataOptimized", "GetBatchDataStreamed"} ->
            IF req.max_points > 0 THEN req.max_points ELSE DefaultMaxPoints
      [] OTHER -> req.max_points

\* row handlers: list(request.data_types) if request.data_types else
\* ['elevation']; columnar handlers: list(request.data_types)
HandlerDataTypes(r, req) ==
    IF r \notin ColumnarRpcs /\ req.data_types = << >> THEN << "elevation" >>
    ELSE req.data_types

\* context.set_details(f"...: {str(e)}") of the handler's except clause
ErrorDetails(r) ==
    CASE r = "StreamData"                   -> "Streaming error"
      [] r = "GetBatchData"                 -> "Batch data error"
      [] r = "GetBatchDataOptimized"        -> "Optimized batch data error"
      [] r = "GetBatchDataStreamed"         -> "Streamed batch data error"
      [] r = "GetBatchDataColumnar"         -> "Columnar batch data error"
      [] r = "GetBatchDataColumnarStreamed" -> "Columnar streamed data error"

\* request.resolution or 20
HandlerResolution(req) ==
    IF req.resolution = 0 THEN DefaultResolution ELSE req.resolution

\* request.max_points_per_second or 5
HandlerRate(req) ==
    IF req.max_points_per_second = 0 THEN DefaultPointsPerSecond
    ELSE req.max_points_per_second

(***************************************************************************)
(* grpc_server.py: chunking                                                *)
(***************************************************************************)
\* floor instead of ceiling division
TotalChunksFloor(tp) == tp \div chunk_size

TotalChunks(tp) == (tp + chunk_size - 1) \div chunk_size

\* the chunk loop starts one chunk late
StartIdxShifted(k) == (k + 1) * chunk_size

StartIdx(k) == k * chunk_size

\* the end of the last chunk is not clamped to the number of points
EndIdxUnclamped(start_idx, tp) == start_idx + chunk_size

EndIdx(start_idx, tp) == Min(start_idx + chunk_size, tp)

\* chunk_number: chunk_num + 1 in GetBatchDataStreamed,
\* chunk_index in GetBatchDataColumnarStreamed
ChunkNumber(r, k) == IF r = "GetBatchDataStreamed" THEN k + 1 ELSE k

IsFinalChunk(k, tc) == (k = tc - 1)

\* points_in_chunk: len(protobuf_data_points) in GetBatchDataStreamed,
\* end_idx - start_idx in GetBatchDataColumnarStreamed
PointsInChunk(r, tp, start_idx, end_idx) ==
    IF r = "GetBatchDataStreamed"
    THEN SliceHi(tp, start_idx, end_idx) - SliceLo(tp, start_idx)
    ELSE end_idx - start_idx

\* the generation function that computed the primary values of a payload
MethodUsed(data_types) == PrimaryMethod(PrimaryDataType(data_types))

\* the number of points among [lo, hi) whose value is NaN
NonFiniteIn(lo, hi, data_types, bounds) ==
    IF NonFiniteField(PrimaryMethod(PrimaryDataType(data_types)), bounds)
    THEN hi - lo ELSE 0

\* arrays[name][start_idx:end_idx] for every array of the generator's result
SliceArrays(arrays, start_idx, end_idx) ==
    [ name \in DOMAIN arrays |->
        [ lo |-> SliceLo(arrays[name], start_idx),
          hi |-> SliceHi(arrays[name], start_idx, end_idx) ] ]

BuildChunk(r, k, tp, tc, arrays, data_types, bounds) ==
    LET start_idx == StartIdx(k)
        end_idx   == EndIdx(start_idx, tp)
    IN  [ kind            |-> "chunk",
          method          |-> MethodUsed(data_types),
          chunk_number    |-> ChunkNumber(r, k),
          total_chunks    |-> tc,
          points_in_chunk |-> PointsInChunk(r, tp, start_idx, end_idx),
          is_final_chunk  |-> IsFinalChunk(k, tc),
          lo              |-> SliceLo(tp, start_idx),
          hi              |-> SliceHi(tp, start_idx, end_idx),
          columns         |-> SliceArrays(arrays, start_idx, end_idx),
          nonfinite       |-> NonFiniteIn(SliceLo(tp, start_idx),
                                          SliceHi(tp, start_idx, end_idx),
                                          data_types, bounds) ]

\* the whole of every array: chunk.x.extend(columnar_data['x']), ...
WholeArrays(arrays) ==
    [ name \in DOMAIN arrays |-> [ lo |-> 0, hi |-> arrays[name] ] ]

\* the response of a single-response batch handler; GetBatchDataColumnar
\* wraps its arrays in one chunk numbered 0 of 1
BuildResponse(r, arrays, data_types, bounds) ==
    IF r \in ColumnarRpcs
    THEN [ kind            |-> "response",
           method          |-> MethodUsed(data_types),
           total_count     |-> arrays["x"],
           chunk_number    |-> 0,
           total_chunks    |-> 1,
           points_in_chunk |-> arrays["x"],
           is_final_chunk  |-> TRUE,
           columns         |-> WholeArrays(arrays),
           nonfinite       |-> NonFiniteIn(0, arrays["z"], data_types, bounds) ]
    ELSE [ kind        |-> "response",
           method      |-> MethodUsed(data_types),
           total_count |-> arrays["data_points"],
           columns     |-> WholeArrays(arrays),
           nonfinite   |-> NonFiniteIn(0, arrays["data_points"], data_types,
                                       bounds) ]

\* the default-constructed response returned by the except clause
EmptyResponse(r) ==
    IF r \in ColumnarRpcs
    THEN [ kind            |-> "response",
           method          |-> "none",
           total_count     |-> 0,
           chunk_number    |-> 0,
           total_chunks    |-> 0,
           points_in_chunk |-> 0,
           is_final_chunk  |-> FALSE,
           columns         |-> [ name \in BaseColumns |-> [ lo |-> 0, hi |-> 0 ] ],
           nonfinite       |-> 0 ]
    ELSE [ kind        |-> "response",
           method      |-> "none",
           total_count |-> 0,
           columns     |-> [ name \in {"data_points"} |-> [ lo |-> 0, hi |-> 0 ] ],
           nonfinite   |-> 0 ]

(***************************************************************************)
(* Dataset store: values                                                   *)
(***************************************************************************)
\* A CSV cell or a stored JSON string, by what float() and SQLite's CAST
\* make of it: the decimal text of the integer n ("10", "10.0"), the texts
\* "nan" and "inf", a decimal text beyond the double range ("1e999"), a
\* text that is no number ("abc"), the empty text, and the decimal text of
\* the smallest positive double ("5e-324")
Num(n) == [ kind |-> "number", n |-> n ]

NanText == [ kind |-> "nan", n |-> 0 ]

InfText == [ kind |-> "inf", n |-> 0 ]

HugeText == [ kind |-> "huge", n |-> 0 ]

WordText == [ kind |-> "word", n |-> 0 ]

EmptyText == [ kind |-> "empty", n |-> 0 ]

TinyText == [ kind |-> "tiny", n |-> 0 ]

\* float(value) raises ValueError
FloatRaises(cell) == cell.kind \in {"word", "empty"}

\* str(float(value)): "10" -> "10.0", "nan" -> "nan", "5e-324" -> "5e-324",
\* "inf" and "1e999" -> "inf"
StrFloat(cell) ==
    CASE cell.kind = "number" -> Num(cell.n)
      [] cell.kind = "nan"    -> NanText
      [] cell.kind = "tiny"   -> TinyText
      [] OTHER                -> InfText

\* the stored text of a cell of a column of the given type
ConvertCell(column_type, cell) ==
    IF column_type = COLUMN_TYPE_NUMERIC
    THEN IF FloatRaises(cell) THEN Num(0) ELSE StrFloat(cell)
    ELSE cell

\* an SQL value: a real number in thousandths, +Infinity, or NULL
Thousandths(n) == n * 1000

Finite(v) == [ kind |-> "real", v |-> v ]

Infinity == [ kind |-> "inf", v |-> 0 ]

SqlNull == [ kind |-> "null", v |-> 0 ]

\* CAST(text AS REAL): the longest numeric prefix of the text, 0.0 when there
\* is none ("nan", "inf", "abc", ""), +Infinity beyond the double range.
\* Reals lie on a grid and a product is rounded to the grid, as a double
\* product is rounded to a double; the smallest positive double is the
\* smallest positive value of the grid.
SqlCastReal(cell) ==
    CASE cell.kind = "number" -> Finite(Thousandths(cell.n))
      [] cell.kind = "tiny"   -> Finite(1)
      [] cell.kind = "huge"   -> Infinity
      [] OTHER                -> Finite(0)

Abs(v) == IF v < 0 THEN 0 - v ELSE v

SetMin(S) == CHOOSE v \in S : \A w \in S : v <= w

SetMax(S) == CHOOSE v \in S : \A w \in S : v >= w

SeqsUpTo(S, n) == UNION { [ 1..k -> S ] : k \in 0..n }

\* the cells of column "a" of the uploaded files
CellValues ==
    { Num(-10), Num(0), Num(10), Num(100), NanText, HugeText, WordText,
      EmptyText }

\* the uploaded files: a header row a,b and up to MaxRows rows whose column b
\* holds 10; among them the files whose column a holds "5e-324" in every row
CsvFiles ==
    [ headers : { << "a", "b" >> },
      rows : SeqsUpTo({ << c, Num(10) >> : c \in CellValues }, MaxRows) ]
    \cup
    [ headers : { << "a", "b" >> },
      rows : { [ k \in 1..n |-> << TinyText, Num(10) >> ] : n \in 1..MaxRows } ]

ColumnTypes == { COLUMN_TYPE_NUMERIC, COLUMN_TYPE_CATEGORICAL, COLUMN_TYPE_UNUSED }

\* request.column_mappings of ProcessDataset
MappingsValues ==
    { << ma, mb >> :
        ma \in [ column_name : {"a"}, column_type : ColumnTypes,
                 mapped_field : {"", "m"}, is_coordinate : BOOLEAN ],
        mb \in [ column_name : {"b"},
                 column_type : { COLUMN_TYPE_NUMERIC, COLUMN_TYPE_CATEGORICAL },
                 mapped_field : {""}, is_coordinate : {FALSE} ] }

\* the ids generate_id hands out
DatasetIds == {"ds1"}

\* request.page_size of GetDatasetData
PageSizeValues == {0, 1, BoundaryPageLimit, BoundaryPageLimit + 1}

\* the calls of GetDatasetData: dataset_id and page_size; no dataset ever
\* has the id "ghost"
DatasetDataRequests == ({"ds1"} \X PageSizeValues) \cup { << "ghost", 1 >> }

\* the calls of get_dataset_boundaries: dataset_id and column_names (the
\* empty list stands for None)
BoundaryRequests ==
    ({"ds1"} \X { << >>, << "a" >>, << "m", "zz" >> }) \cup { << "ghost", << >> >> }

(***************************************************************************)
(* grpc_server.py: ProcessDataset                                          *)
(***************************************************************************)
\* column_map: the last mapping of each column name that is not UNUSED
ColumnMap(mappings) ==
    LET used == { i \in DOMAIN mappings :
                    mappings[i].column_type # COLUMN_TYPE_UNUSED }
    IN  [ name \in { mappings[i].column_name : i \in used } |->
            mappings[SetMax({ i \in used : mappings[i].column_name = name })] ]

\* field_name = mapping['field'] if mapping['field'] else header
FieldName(mapping, header) ==
    IF mapping.mapped_field # "" THEN mapping.mapped_field ELSE header

\* processed_row: the converted cell of every mapped column, under its field
\* name; a later column wins a shared field name
ProcessedRow(headers, row, column_map) ==
    LET mapped == { i \in DOMAIN headers : headers[i] \in DOMAIN column_map }
        field(i) == FieldName(column_map[headers[i]], headers[i])
    IN  [ f \in { field(i) : i \in mapped } |->
            LET i == SetMax({ j \in mapped : field(j) = f })
            IN  ConvertCell(column_map[headers[i]].column_type, row[i]) ]

\* processed_rows of a file whose rows all have len(headers) cells
ProcessedRows(csv, mappings) ==
    [ k \in DOMAIN csv.rows |->
        ProcessedRow(csv.headers, csv.rows[k], ColumnMap(mappings)) ]

(***************************************************************************)
(* database.py: get_dataset_boundaries                                     *)
(***************************************************************************)
\* the rows of dataset_data with dataset_id = d, ordered by row_index
RowsOf(data, d) == IF d \in DOMAIN data THEN data[d] ELSE << >>

\* mapping['column_type'] in [1, 2] or mapping['is_coordinate']
IsTargetMapping(mapping) ==
    mapping.column_type \in {1, 2} \/ mapping.is_coordinate

\* target_columns
TargetColumns(column_mappings, column_names) ==
    IF column_names # << >> THEN Elements(column_names)
    ELSE { column_mappings[i].column_name :
             i \in { j \in DOMAIN column_mappings :
                       IsTargetMapping(column_mappings[j]) } }

\* the rows for which JSON_EXTRACT(data, '$.' || col) is not NULL
RowsWith(rows, col) == { k \in DOMAIN rows : col \in DOMAIN rows[k] }

\* MIN(CAST(JSON_EXTRACT(data, '$.' || col) AS REAL)): NULL when no row has
\* the key, +Infinity when every cast is
MinVal(rows, col) ==
    LET casts == { SqlCastReal(rows[k][col]) : k \in RowsWith(rows, col) }
    IN  IF casts = {} THEN SqlNull
        ELSE IF \A c \in casts : c.kind = "inf" THEN Infinity
        ELSE Finite(SetMin({ c.v : c \in { x \in casts : x.kind = "real" } }))

\* MAX(CAST(JSON_EXTRACT(data, '$.' || col) AS REAL))
MaxVal(rows, col) ==
    LET casts == { SqlCastReal(rows[k][col]) : k \in RowsWith(rows, col) }
    IN  IF casts = {} THEN SqlNull
        ELSE IF \E c \in casts : c.kind = "inf" THEN Infinity
        ELSE Finite(SetMax({ c.v : c \in casts }))

\* COUNT(CASE WHEN ... IS NOT NULL AND ... != '' AND ... != 'null' THEN 1 END)
ValidCount(rows, col) ==
    Cardinality({ k \in RowsWith(rows, col) : rows[k][col].kind # "empty" })

\* the column gets an entry: the aggregates are not NULL and pass the
\* NaN/Inf test
HasBoundary(rows, col) ==
    LET min_val == MinVal(rows, col)
        max_val == MaxVal(rows, col)
    IN  /\ min_val.kind # "null"
        /\ max_val.kind # "null"
        /\ min_val.kind # "inf"
        /\ max_val.kind # "inf"

\* the padding of a single value without the 1.0 for zero
PaddingNoZeroCase(min_val, max_val) ==
    IF min_val = max_val THEN Abs(min_val) \div 10
    ELSE (max_val - min_val) \div 20

\* padding = abs(min_val) * 0.1 if min_val != 0 else 1.0 when
\* min_val == max_val, else value_range * 0.05
Padding(min_val, max_val) ==
    IF min_val = max_val
    THEN IF min_val # 0 THEN Abs(min_val) \div 10 ELSE Thousandths(1)
    ELSE (max_val - min_val) \div 20

\* boundaries[col]
Boundary(rows, col) ==
    LET min_val == MinVal(rows, col).v
        max_val == MaxVal(rows, col).v
        padding == Padding(min_val, max_val)
    IN  [ min_value   |-> min_val - padding,
          max_value   |-> max_val + padding,
          valid_count |-> ValidCount(rows, col) ]

NoBoundaries == [ col \in {} |-> 0 ]

\* get_dataset_boundaries(dataset_id, column_names) on the store (ds, data)
DatasetBoundaries(ds, data, d, column_names) ==
    IF d \notin DOMAIN ds THEN NoBoundaries
    ELSE LET rows   == RowsOf(data, d)
             target == TargetColumns(ds[d].column_mappings, column_names)
         IN  [ col \in { c \in target : HasBoundary(rows, c) } |->
                 Boundary(rows, col) ]

(***************************************************************************)
(* grpc_server.py: GetDatasetData                                          *)
(***************************************************************************)
\* the boundary scan is left out for page sizes up to and excluding the limit
BoundariesWantedBelow(page_size) == page_size < BoundaryPageLimit

\* if request.page_size <= 15000
BoundariesWanted(page_size) == page_size <= BoundaryPageLimit

\* a missing dataset reported as an error
NotFoundAsError(d, page_size) ==
    [ rpc |-> "GetDatasetData", dataset_id |-> d, page_size |-> page_size,
      status |-> "INTERNAL", found |-> FALSE, total_rows |-> 0, rows |-> << >>,
      column_mappings |-> << >>, boundary_calls |-> 0,
      data_boundaries |-> NoBoundaries ]

\* if not dataset: return projects_pb2.GetDatasetDataResponse()
NotFoundResponse(d, page_size) ==
    [ rpc |-> "GetDatasetData", dataset_id |-> d, page_size |-> page_size,
      status |-> "OK", found |-> FALSE, total_rows |-> 0, rows |-> << >>,
      column_mappings |-> << >>, boundary_calls |-> 0,
      data_boundaries |-> NoBoundaries ]

\* get_dataset_data(dataset_id, request.page or 1, request.page_size or 100)
\* for a request that leaves page unset: LIMIT page_size OFFSET 0, a
\* negative LIMIT being no limit
PageRows(rows, page_size) ==
    LET limit == IF page_size = 0 THEN DefaultPageSize ELSE page_size
    IN  IF limit < 0 THEN rows ELSE SubSeq(rows, 1, Min(limit, Len(rows)))

\* the response of GetDatasetData on the store (ds, data)
DatasetDataResponse(ds, data, d, page_size) ==
    IF d \notin DOMAIN ds THEN NotFoundResponse(d, page_size)
    ELSE [ rpc |-> "GetDatasetData", dataset_id |-> d, page_size |-> page_size,
           status |-> "OK", found |-> TRUE,
           total_rows |-> Len(RowsOf(data, d)),
           rows |-> PageRows(RowsOf(data, d), page_size),
           column_mappings |-> ds[d].column_mappings,
           boundary_calls |-> IF BoundariesWanted(page_size) THEN 1 ELSE 0,
           data_boundaries |->
               IF BoundariesWanted(page_size)
               THEN DatasetBoundaries(ds, data, d, << >>)
               ELSE NoBoundaries ]

NoProcessing == [ running |-> FALSE ]

NoDatasetReply == [ rpc |-> "none" ]

\* loaded_csv_data before any SendFile
NoLoadedData == [ loaded |-> FALSE ]

NoStatsCall == [ pc |-> "idle" ]

\* no call holds a worker
NoCalls == [ unary |-> 0, stream |-> 0 ]

(***************************************************************************)
(* Initial state                                                           *)
(***************************************************************************)
NoReply == [ received |-> FALSE ]

NoRequest ==
    [ max_points |-> 0, resolution |-> 0, max_points_per_second |-> 0,
      data_types |-> << >>, bounds |-> ProperBounds ]

Init ==
    /\ pc = "idle"
    /\ rpc = "none"
    /\ request = NoRequest
    /\ max_points = 0
    /\ resolution = 0
    /\ max_points_per_second = 0
    /\ actual_resolution = 0
    /\ total_points = 0
    /\ total_chunks = 0
    /\ chunk_num = 0
    /\ out = << >>
    /\ status = "OK"
    /\ details = ""
    /\ active = TRUE
    /\ closed_at = -1
    /\ elapsed = 0
    /\ point_count = 0
    /\ gen = "new"
    /\ replies = [ r \in BatchRpcs |-> NoReply ]
    /\ projects = {}
    /\ files = [ f \in {} |-> 0 ]
    /\ datasets = [ d \in {} |-> 0 ]
    /\ dataset_data = [ d \in {} |-> 0 ]
    /\ processing = NoProcessing
    /\ dataset_reply = NoDatasetReply
    /\ loaded_csv_data = NoLoadedData
    /\ stats_call = NoStatsCall
    /\ executing = NoCalls
    /\ waiting = << >>

StoreUnchanged ==
    UNCHANGED << projects, files, datasets, dataset_data, processing,
                 dataset_reply, loaded_csv_data, stats_call, executing, waiting >>

\* what the delivery handlers leave alone: the client's side and the
\* dataset store
ClientUnchanged == UNCHANGED << replies >> /\ StoreUnchanged

StreamUnchanged ==
    /\ UNCHANGED << max_points_per_second, elapsed, point_count, gen >>
    /\ ClientUnchanged

(***************************************************************************)
(* Single-response batch handlers                                          *)
(***************************************************************************)
\* GetBatchData / GetBatchDataColumnar: generate, convert, return; an
\* exception sets INTERNAL and returns an empty response
BatchCall(r, req) ==
    LET mp   == HandlerMaxPoints(r, req)
        res  == HandlerResolution(req)
        ares == ActualResolution(mp, res)
        dts  == HandlerDataTypes(r, req)
    IN  /\ pc = "idle"
        /\ r \in BatchRpcs
        /\ rpc' = r
        /\ request' = req
        /\ max_points' = mp
        /\ resolution' = res
        /\ actual_resolution' = ares
        /\ total_chunks' = 0
        /\ chunk_num' = 0
        /\ active' = TRUE
        /\ closed_at' = -1
        /\ pc' = "done"
        /\ IF GridRaises(ares)
           THEN /\ status' = "INTERNAL"
                /\ details' = ErrorDetails(r)
                /\ total_points' = 0
                /\ out' = << EmptyResponse(r) >>
           ELSE /\ status' = "OK"
                /\ details' = ""
                /\ total_points' = GeneratedCount(r, mp, ares)
                /\ out' = << BuildResponse(r, GeneratedArrays(r, mp, ares, dts),
                                           dts, req.bounds) >>
        /\ StreamUnchanged

(***************************************************************************)
(* Chunked streams                                                         *)
(***************************************************************************)
\* GetBatchDataStreamed / GetBatchDataColumnarStreamed up to the chunk loop
ChunkedStart(r, req) ==
    LET mp   == HandlerMaxPoints(r, req)
        res  == HandlerResolution(req)
        ares == ActualResolution(mp, res)
        tp   == GeneratedCount(r, mp, ares)
    IN  /\ pc = "idle"
        /\ r \in ChunkedRpcs
        /\ rpc' = r
        /\ request' = req
        /\ max_points' = mp
        /\ resolution' = res
        /\ actual_resolution' = ares
        /\ chunk_num' = 0
        /\ out' = << >>
        /\ active' = TRUE
        /\ closed_at' = -1
        /\ IF GridRaises(ares)
           THEN /\ status' = "INTERNAL"
                /\ details' = ErrorDetails(r)
                /\ total_points' = 0
                /\ total_chunks' = 0
                /\ pc' = "done"
           ELSE /\ status' = "OK"
                /\ details' = ""
                /\ total_points' = tp
                /\ total_chunks' = TotalChunks(tp)
                /\ pc' = "chunking"
        /\ StreamUnchanged

\* one iteration of `for chunk_num in range(total_chunks)`: build the chunk,
\* yield it, pause
EmitChunk ==
    /\ pc = "chunking"
    /\ chunk_num < total_chunks
    /\ out' = Append(out,
                     BuildChunk(rpc, chunk_num, total_points, total_chunks,
                                GeneratedArrays(rpc, max_points, actual_resolution,
                                                HandlerDataTypes(rpc, request)),
                                HandlerDataTypes(rpc, request), request.bounds))
    /\ chunk_num' = chunk_num + 1
    /\ UNCHANGED << pc, rpc, request, max_points, resolution, actual_resolution,
                    total_points, total_chunks, status, details, active,
                    closed_at >>
    /\ StreamUnchanged

\* the chunk loop is exhausted: the handler returns
ChunkedFinish ==
    /\ pc = "chunking"
    /\ chunk_num >= total_chunks
    /\ pc' = "done"
    /\ UNCHANGED << rpc, request, max_points, resolution, actual_resolution,
                    total_points, total_chunks, chunk_num, out, status, details,
                    active, closed_at >>
    /\ StreamUnchanged

(***************************************************************************)
(* Live stream                                                             *)
(***************************************************************************)
\* interval = 1.0 / max_points_per_second; time.sleep(interval) raises
\* ValueError for a negative interval
SleepRaises(rate) == rate < 0

IntervalMillis(rate) == 1000 \div rate

\* while time.time() - start_time < 30
WindowOpen(t) == t < StreamMillis

\* if context.is_active(): the handler's poll of the channel
HandlerSeesOpen(a) == a

\* StreamData up to the first next() on the generator
StreamDataStart(req) ==
    /\ pc = "idle"
    /\ pc' = "streaming"
    /\ rpc' = "StreamData"
    /\ request' = req
    /\ max_points' = 0
    /\ resolution' = 0
    /\ max_points_per_second' = HandlerRate(req)
    /\ actual_resolution' = 0
    /\ total_points' = 0
    /\ total_chunks' = 0
    /\ chunk_num' = 0
    /\ out' = << >>
    /\ status' = "OK"
    /\ details' = ""
    /\ active' = TRUE
    /\ closed_at' = -1
    /\ elapsed' = 0
    /\ point_count' = 0
    /\ gen' = "new"
    /\ ClientUnchanged

BatchUnchanged ==
    /\ UNCHANGED << rpc, request, max_points, resolution, max_points_per_second,
                    actual_resolution, total_points, total_chunks, chunk_num,
                    active, closed_at >>
    /\ ClientUnchanged

\* generate_streaming_data, first next(): the loop test, then the first yield
GenFirst ==
    /\ pc = "streaming"
    /\ gen = "new"
    /\ IF WindowOpen(elapsed)
       THEN gen' = "yielded" /\ pc' = pc
       ELSE gen' = gen /\ pc' = "done"
    /\ UNCHANGED << out, status, details, elapsed, point_count >>
    /\ BatchUnchanged

\* generate_streaming_data resumed after a yield: point_count += 1,
\* time.sleep(interval), the loop test, the next yield.  An exception
\* propagates to StreamData's except clause; StopIteration ends its loop.
GenResume ==
    /\ pc = "streaming"
    /\ gen = "consumed"
    /\ point_count' = point_count + 1
    /\ IF SleepRaises(max_points_per_second)
       THEN /\ status' = "INTERNAL"
            /\ details' = ErrorDetails(rpc)
            /\ pc' = "done"
            /\ UNCHANGED << elapsed, gen >>
       ELSE /\ UNCHANGED << status, details >>
            /\ elapsed' = elapsed + IntervalMillis(max_points_per_second)
            /\ IF WindowOpen(elapsed')
               THEN gen' = "yielded" /\ pc' = pc
               ELSE gen' = gen /\ pc' = "done"
    /\ UNCHANGED out
    /\ BatchUnchanged

\* the body of StreamData's for loop on the point the generator yielded
HandlerPoint ==
    /\ pc = "streaming"
    /\ gen = "yielded"
    /\ IF HandlerSeesOpen(active)
       THEN /\ out' = Append(out, [ kind         |-> "point",
                                     method       |-> MethodUsed(
                                         HandlerDataTypes(rpc, request)),
                                     stream_point |-> point_count ])
            /\ gen' = "consumed"
            /\ pc' = pc
       ELSE /\ pc' = "done"
            /\ UNCHANGED << out, gen >>
    /\ UNCHANGED << status, details, elapsed, point_count >>
    /\ BatchUnchanged

(***************************************************************************)
(* The client and the transport                                            *)
(***************************************************************************)
\* the client's channel closes while a stream is running
ClientClose ==
    /\ pc \in {"chunking", "streaming"}
    /\ active
    /\ active' = FALSE
    /\ closed_at' = Len(out)
    /\ UNCHANGED << pc, rpc, request, max_points, resolution, actual_resolution,
                    total_points, total_chunks, chunk_num, out, status,
                    details >>
    /\ StreamUnchanged

\* the call is over; the worker takes the next call
Return ==
    /\ pc = "done"
    /\ pc' = "idle"
    /\ rpc' = "none"
    /\ request' = NoRequest
    /\ max_points' = 0
    /\ resolution' = 0
    /\ max_points_per_second' = 0
    /\ actual_resolution' = 0
    /\ total_points' = 0
    /\ total_chunks' = 0
    /\ chunk_num' = 0
    /\ out' = << >>
    /\ status' = "OK"
    /\ details' = ""
    /\ active' = TRUE
    /\ closed_at' = -1
    /\ elapsed' = 0
    /\ point_count' = 0
    /\ gen' = "new"
    /\ ClientUnchanged

\* requests that vary the point budget and the resolution, and requests that
\* vary the field kinds and the bounding box
BatchRequests ==
    [ max_points : MaxPointsValues, resolution : ResolutionValues,
      max_points_per_second : {0}, data_types : {<< >>}, bounds : {ProperBounds} ]
    \cup
    [ max_points : {0, 17, 2 * chunk_size + 1}, resolution : {0, 4},
      max_points_per_second : {0}, data_types : DataTypesValues,
      bounds : BoundsValues ]

StreamRequests ==
    [ max_points : {0}, resolution : {0}, max_points_per_second : RateValues,
      data_types : {<< >>}, bounds : {ProperBounds} ]
    \cup
    [ max_points : {0}, resolution : {0}, max_points_per_second : {MaxRate},
      data_types : DataTypesValues, bounds : {ProperBounds} ]

Next ==
    \/ \E r \in BatchRpcs, req \in BatchRequests : BatchCall(r, req)
    \/ \E r \in ChunkedRpcs, req \in BatchRequests : ChunkedStart(r, req)
    \/ EmitChunk
    \/ ChunkedFinish
    \/ \E req \in StreamRequests : StreamDataStart(req)
    \/ GenFirst
    \/ GenResume
    \/ HandlerPoint
    \/ ClientClose
    \/ Return

Spec == Init /\ [][Next]_vars

(***************************************************************************)
(* One request sent to the three single-response batch RPCs                *)
(***************************************************************************)
\* the client holds one request
EncodingInit ==
    /\ pc = "idle"
    /\ rpc = "none"
    /\ request \in BatchRequests
    /\ max_points = 0
    /\ resolution = 0
    /\ max_points_per_second = 0
    /\ actual_resolution = 0
    /\ total_points = 0
    /\ total_chunks = 0
    /\ chunk_num = 0
    /\ out = << >>
    /\ status = "OK"
    /\ details = ""
    /\ active = TRUE
    /\ closed_at = -1
    /\ elapsed = 0
    /\ point_count = 0
    /\ gen = "new"
    /\ replies = [ r \in BatchRpcs |-> NoReply ]
    /\ projects = {}
    /\ files = [ f \in {} |-> 0 ]
    /\ datasets = [ d \in {} |-> 0 ]
    /\ dataset_data = [ d \in {} |-> 0 ]
    /\ processing = NoProcessing
    /\ dataset_reply = NoDatasetReply
    /\ loaded_csv_data = NoLoadedData
    /\ stats_call = NoStatsCall
    /\ executing = NoCalls
    /\ waiting = << >>

\* the client sends its request to an RPC it has no reply of
EncodingCall(r) ==
    /\ ~replies[r].received
    /\ BatchCall(r, request)

\* the client receives the response; the points are on the grid of
\* actual_resolution steps per axis over the bounds of the request
EncodingReceive ==
    /\ pc = "done"
    /\ rpc \in BatchRpcs
    /\ replies' = [ replies EXCEPT ![rpc] =
                      [ received          |-> TRUE,
                        status            |-> status,
                        total_count       |-> out[1].total_count,
                        actual_resolution |-> actual_resolution,
                        bounds            |-> request.bounds ] ]
    /\ pc' = "idle"
    /\ rpc' = "none"
    /\ out' = << >>
    /\ status' = "OK"
    /\ details' = ""
    /\ UNCHANGED << request, max_points, resolution, max_points_per_second,
                    actual_resolution, total_points, total_chunks, chunk_num,
                    active, closed_at, elapsed, point_count, gen >>
    /\ StoreUnchanged

EncodingNext ==
    \/ \E r \in BatchRpcs : EncodingCall(r)
    \/ EncodingReceive

EncodingSpec == EncodingInit /\ [][EncodingNext]_vars

(***************************************************************************)
(* Dataset store: ProcessDataset, GetDatasetData, get_dataset_boundaries   *)
(***************************************************************************)
DeliveryUnchanged ==
    UNCHANGED << pc, rpc, request, max_points, resolution, max_points_per_second,
                 actual_resolution, total_points, total_chunks, chunk_num, out,
                 status, details, active, closed_at, elapsed, point_count, gen,
                 replies, loaded_csv_data, stats_call, executing, waiting >>

\* the ids generate_id can return in the model
ProjectIds == {"p1"}

FileIds == {"f1"}

\* the delivery side and the client, left alone
ClientUnchangedDelivery ==
    UNCHANGED << pc, rpc, request, max_points, resolution, max_points_per_second,
                 actual_resolution, total_points, total_chunks, chunk_num, out,
                 status, details, active, closed_at, elapsed, point_count, gen,
                 replies >>

\* uuid of generate_id: an id no row of the store carries
FreshId(ids, used) == CHOOSE d \in ids : d \notin used

UsedProjectIds == projects \cup { files[f].project_id : f \in DOMAIN files }

UsedFileIds == DOMAIN files \cup { datasets[d].file_id : d \in DOMAIN datasets }

UsedDatasetIds == DOMAIN datasets \cup DOMAIN dataset_data

\* the function fn with the argument x set to the value v
With(fn, x, v) == [ y \in DOMAIN fn \cup {x} |-> IF y = x THEN v ELSE fn[y] ]

\* the function fn on the arguments of S
Restrict(fn, S) == [ y \in DOMAIN fn \cap S |-> fn[y] ]

\* a store that inserts the new rows after the rows already there
StoredRowsAppended(old_rows, data_rows) == old_rows \o data_rows

\* store_dataset_data in one transaction: DELETE FROM dataset_data WHERE
\* dataset_id = ?, then one INSERT per row with row_index = i
StoredRows(old_rows, data_rows) == data_rows

\* create_project: one INSERT, committed
CreateProject ==
    /\ ProjectIds \ UsedProjectIds # {}
    /\ LET id == FreshId(ProjectIds, UsedProjectIds)
       IN  /\ projects' = projects \cup {id}
           /\ dataset_reply' = [ rpc |-> "create_project", project_id |-> id ]
    /\ UNCHANGED << files, datasets, dataset_data, processing >>
    /\ DeliveryUnchanged

\* create_file(project_id, ...) for an existing project: one INSERT, committed
CreateFile(p) ==
    /\ p \in projects
    /\ FileIds \ UsedFileIds # {}
    /\ LET id == FreshId(FileIds, UsedFileIds)
       IN  /\ files' = With(files, id, [ project_id |-> p ])
           /\ dataset_reply' = [ rpc |-> "create_file", file_id |-> id,
                                 project_id |-> p ]
    /\ UNCHANGED << projects, datasets, dataset_data, processing >>
    /\ DeliveryUnchanged

\* ProcessDataset(file_id, mappings) for a file with content, up to and
\* including create_dataset: the rows of the file are converted, the dataset
\* record is committed
ProcessDatasetCreate ==
    /\ ~processing.running
    /\ DatasetIds \ UsedDatasetIds # {}
    /\ \E f \in DOMAIN files, csv \in CsvFiles, mappings \in MappingsValues :
          LET id == FreshId(DatasetIds, UsedDatasetIds)
              processed_rows == ProcessedRows(csv, mappings)
          IN  /\ datasets' =
                    With(datasets, id,
                         [ file_id         |-> f,
                           total_rows      |-> Len(processed_rows),
                           column_mappings |-> mappings ])
              /\ processing' = [ running        |-> TRUE,
                                 dataset_id     |-> id,
                                 processed_rows |-> processed_rows ]
    /\ UNCHANGED << projects, files, dataset_data, dataset_reply >>
    /\ DeliveryUnchanged

\* ProcessDataset from store_dataset_data to the response: the rows of the
\* dataset are deleted and the processed rows inserted in one commit
ProcessDatasetStore ==
    /\ processing.running
    /\ dataset_data' =
          With(dataset_data, processing.dataset_id,
               StoredRows(RowsOf(dataset_data, processing.dataset_id),
                          processing.processed_rows))
    /\ dataset_reply' = [ rpc |-> "ProcessDataset", success |-> TRUE,
                          dataset_id |-> processing.dataset_id,
                          processed_rows |-> Len(processing.processed_rows) ]
    /\ processing' = NoProcessing
    /\ UNCHANGED << projects, files, datasets >>
    /\ DeliveryUnchanged

\* ProcessDataset when store_dataset_data raises (sqlite3.OperationalError:
\* the database is locked by another writer, the disk is full): nothing of
\* the transaction is committed, the except clause answers success = False
ProcessDatasetStoreRaises ==
    /\ processing.running
    /\ dataset_reply' = [ rpc |-> "ProcessDataset", success |-> FALSE,
                          dataset_id |-> "", processed_rows |-> 0 ]
    /\ processing' = NoProcessing
    /\ UNCHANGED << projects, files, datasets, dataset_data >>
    /\ DeliveryUnchanged

\* ProcessDataset for a file id without content: "File not found"
ProcessDatasetNoFile ==
    /\ ~processing.running
    /\ FileIds \ DOMAIN files # {}
    /\ dataset_reply' = [ rpc |-> "ProcessDataset", success |-> FALSE,
                          dataset_id |-> "", processed_rows |-> 0 ]
    /\ UNCHANGED << projects, files, datasets, dataset_data, processing >>
    /\ DeliveryUnchanged

\* GetDatasetData(dataset_id, page_size), run by another worker than the
\* ProcessDataset in flight
GetDatasetData(d, page_size) ==
    /\ dataset_reply' = DatasetDataResponse(datasets, dataset_data, d, page_size)
    /\ UNCHANGED << projects, files, datasets, dataset_data, processing >>
    /\ DeliveryUnchanged

\* db.get_dataset_boundaries(dataset_id, column_names)
GetDatasetBoundaries(d, column_names) ==
    /\ dataset_reply' =
          [ rpc |-> "get_dataset_boundaries", dataset_id |-> d,
            column_names |-> column_names, raised |-> FALSE,
            boundaries |-> DatasetBoundaries(datasets, dataset_data, d,
                                             column_names) ]
    /\ UNCHANGED << projects, files, datasets, dataset_data, processing >>
    /\ DeliveryUnchanged

StoreNext ==
    \/ CreateProject
    \/ \E p \in ProjectIds : CreateFile(p)
    \/ ProcessDatasetCreate
    \/ ProcessDatasetStore
    \/ ProcessDatasetStoreRaises
    \/ ProcessDatasetNoFile
    \/ \E call \in DatasetDataRequests : GetDatasetData(call[1], call[2])
    \/ \E call \in BoundaryRequests : GetDatasetBoundaries(call[1], call[2])

StoreSpec == Init /\ [][StoreNext]_vars

(***************************************************************************)
(* database.py: the DatabaseManager called directly                        *)
(***************************************************************************)
\* the dataset ids generate_id can return to create_dataset
DatabaseDatasetIds == {"ds1", "ds2"}

\* data_rows of store_dataset_data: up to MaxRows rows
DataRowsValues ==
    SeqsUpTo({ [ a |-> Num(0) ], [ a |-> Num(10) ] }, MaxRows)

\* get_connection: sqlite3.connect(self.db_path) and nothing else; SQLite
\* enforces foreign keys, ON DELETE CASCADE included, only on a connection
\* that has run PRAGMA foreign_keys = ON
ForeignKeysEnforced == FALSE

\* SELECT ... FROM files WHERE project_id = ?
GetProjectFiles(p) == { f \in DOMAIN files : files[f].project_id = p }

\* SELECT ... FROM datasets d JOIN files f ON d.file_id = f.id
\* WHERE f.project_id = ?
GetDatasetsByProject(p) ==
    { d \in DOMAIN datasets : datasets[d].file_id \in GetProjectFiles(p) }

\* the datasets whose file_id is one of the files
DatasetsOfFiles(fs) == { d \in DOMAIN datasets : datasets[d].file_id \in fs }

\* create_dataset(file_id, total_rows, column_mappings) for an existing file
CreateDataset(f, total_rows) ==
    /\ f \in DOMAIN files
    /\ DatabaseDatasetIds \ UsedDatasetIds # {}
    /\ LET id == FreshId(DatabaseDatasetIds, UsedDatasetIds)
       IN  /\ datasets' = With(datasets, id,
                               [ file_id         |-> f,
                                 total_rows      |-> total_rows,
                                 column_mappings |-> << >> ])
           /\ dataset_reply' = [ rpc |-> "create_dataset", dataset_id |-> id ]
    /\ UNCHANGED << projects, files, dataset_data, processing >>
    /\ DeliveryUnchanged

\* store_dataset_data(dataset_id, data_rows) for an existing dataset
StoreDatasetData(d, data_rows) ==
    /\ d \in DOMAIN datasets
    /\ dataset_data' = With(dataset_data, d,
                            StoredRows(RowsOf(dataset_data, d), data_rows))
    /\ dataset_reply' = [ rpc |-> "store_dataset_data", dataset_id |-> d,
                          data_rows |-> data_rows,
                          deleted |-> Len(RowsOf(dataset_data, d)) ]
    /\ UNCHANGED << projects, files, datasets, processing >>
    /\ DeliveryUnchanged

\* delete_project(project_id): DELETE FROM projects WHERE id = ?; the rows
\* that refer to the project go with it only under enforced foreign keys
DeleteProject(p) ==
    LET gone_files    == IF ForeignKeysEnforced THEN GetProjectFiles(p) ELSE {}
        gone_datasets == DatasetsOfFiles(gone_files)
    IN  /\ projects' = projects \ {p}
        /\ files' = Restrict(files, DOMAIN files \ gone_files)
        /\ datasets' = Restrict(datasets, DOMAIN datasets \ gone_datasets)
        /\ dataset_data' =
              Restrict(dataset_data, DOMAIN dataset_data \ gone_datasets)
        /\ dataset_reply' = [ rpc |-> "delete_project", project_id |-> p,
                              deleted |-> p \in projects ]
        /\ UNCHANGED processing
        /\ DeliveryUnchanged

\* delete_file(file_id): DELETE FROM files WHERE id = ?
DeleteFile(f) ==
    LET gone_datasets == IF ForeignKeysEnforced THEN DatasetsOfFiles({f}) ELSE {}
    IN  /\ files' = Restrict(files, DOMAIN files \ {f})
        /\ datasets' = Restrict(datasets, DOMAIN datasets \ gone_datasets)
        /\ dataset_data' =
              Restrict(dataset_data, DOMAIN dataset_data \ gone_datasets)
        /\ dataset_reply' = [ rpc |-> "delete_file", file_id |-> f,
                              deleted |-> f \in DOMAIN files ]
        /\ UNCHANGED << projects, processing >>
        /\ DeliveryUnchanged

DatabaseNext ==
    \/ CreateProject
    \/ \E p \in ProjectIds : CreateFile(p)
    \/ \E f \in FileIds : CreateDataset(f, 1)
    \/ \E d \in DatabaseDatasetIds, data_rows \in DataRowsValues :
          StoreDatasetData(d, data_rows)
    \/ \E p \in ProjectIds : DeleteProject(p)
    \/ \E f \in FileIds : DeleteFile(f)

DatabaseSpec == Init /\ [][DatabaseNext]_vars

(***************************************************************************)
(* grpc_server.py: the last loaded CSV file                                *)
(***************************************************************************)
\* the SendFile requests with their file: the x values of the rows that
\* have x and y (processed_data) and the variable names of the request
Uploads ==
    { [ file_name |-> "a.csv", data |-> << 0, 10 >>,
        variable_mapping |-> [ x |-> "lon", y |-> "lat", z |-> "" ] ],
      [ file_name |-> "b.csv", data |-> << 100 >>,
        variable_mapping |-> [ x |-> "easting", y |-> "northing", z |-> "h" ] ],
      [ file_name |-> "c.csv", data |-> << 10, 10, 40 >>,
        variable_mapping |-> [ x |-> "X", y |-> "Y", z |-> "" ] ],
      [ file_name |-> "e.csv", data |-> << >>,
        variable_mapping |-> [ x |-> "lon", y |-> "lat", z |-> "" ] ] }

\* the dictionary SendFile assigns to loaded_csv_data
LoadedData(upload) ==
    [ loaded           |-> TRUE,
      data             |-> upload.data,
      file_name        |-> upload.file_name,
      variable_mapping |-> upload.variable_mapping ]

RECURSIVE Sum(_)
Sum(values) ==
    IF values = << >> THEN 0 ELSE values[1] + Sum(Tail(values))

\* x_stats: min, max and sum / len of the x values (avg in thousandths)
Stats(values) ==
    [ min |-> SetMin(Elements(values)),
      max |-> SetMax(Elements(values)),
      avg |-> Thousandths(Sum(values)) \div Len(values) ]

NoStats == [ min |-> 0, max |-> 0, avg |-> 0 ]

\* available_columns: f"{key}:{value}" for every non-empty mapping value
AvailableColumns(mapping) ==
    { << key, mapping[key] >> : key \in { k \in DOMAIN mapping : mapping[k] # "" } }

\* the response while only has_data and total_points are set
EmptyStatsResponse ==
    [ has_data |-> FALSE, total_points |-> 0, x_stats |-> NoStats,
      available_columns |-> {} ]

\* SendFile on a readable file with the requested columns; the assignment to
\* the global is its only access to shared state
SendFile(upload) ==
    /\ loaded_csv_data' = LoadedData(upload)
    /\ dataset_reply' = [ rpc |-> "SendFile", success |-> TRUE,
                          valid_rows |-> Len(upload.data) ]
    /\ UNCHANGED << stats_call, executing, waiting, projects, files, datasets,
                    dataset_data, processing >>
    /\ ClientUnchangedDelivery

\* SendFile raising before the assignment ("Missing required columns", an
\* unreadable file): the except clause answers success = False, INTERNAL
SendFileRaises ==
    /\ dataset_reply' = [ rpc |-> "SendFile", success |-> FALSE,
                          valid_rows |-> 0 ]
    /\ UNCHANGED << loaded_csv_data, stats_call, executing, waiting, projects,
                    files, datasets, dataset_data, processing >>
    /\ ClientUnchangedDelivery

\* GetLoadedDataStats up to the statistics: the test of the global, then
\* data = loaded_csv_data['data'] and everything computed from the local
StatsRead ==
    /\ stats_call.pc = "idle"
    /\ stats_call' =
          IF ~loaded_csv_data.loaded
          THEN [ pc |-> "done", response |-> EmptyStatsResponse ]
          ELSE LET data == loaded_csv_data.data
               IN  [ pc       |-> IF data # << >> THEN "columns" ELSE "done",
                     response |->
                         [ has_data          |-> TRUE,
                           total_points      |-> Len(data),
                           x_stats           |-> IF data # << >> THEN Stats(data)
                                                 ELSE NoStats,
                           available_columns |-> {} ] ]
    /\ UNCHANGED << loaded_csv_data, dataset_reply, executing, waiting, projects,
                    files, datasets, dataset_data, processing >>
    /\ ClientUnchangedDelivery

\* GetLoadedDataStats, "Available columns": mapping =
\* loaded_csv_data['variable_mapping'], the global read anew
StatsColumns ==
    /\ stats_call.pc = "columns"
    /\ stats_call' =
          [ pc       |-> "done",
            response |->
                [ stats_call.response EXCEPT
                    !.available_columns =
                        AvailableColumns(loaded_csv_data.variable_mapping) ] ]
    /\ UNCHANGED << loaded_csv_data, dataset_reply, executing, waiting, projects,
                    files, datasets, dataset_data, processing >>
    /\ ClientUnchangedDelivery

\* the response is sent
StatsReturn ==
    /\ stats_call.pc = "done"
    /\ stats_call' = NoStatsCall
    /\ UNCHANGED << loaded_csv_data, dataset_reply, executing, waiting, projects,
                    files, datasets, dataset_data, processing >>
    /\ ClientUnchangedDelivery

LoadedNext ==
    \/ \E upload \in Uploads : SendFile(upload)
    \/ SendFileRaises
    \/ StatsRead
    \/ StatsColumns
    \/ StatsReturn

LoadedSpec == Init /\ [][LoadedNext]_vars

(***************************************************************************)
(* grpc_server.py: serve, the worker pool                                  *)
(***************************************************************************)
\* a call is unary (one response) or a stream (StreamData,
\* GetBatchDataStreamed, GetBatchDataColumnarStreamed), whose handler is a
\* generator the worker iterates to its end
CallKinds == {"unary", "stream"}

\* the number of calls that hold a worker
Running(ex) == ex.unary + ex.stream

\* a pool that takes every submitted call at once
WorkerAlwaysFree(ex) == TRUE

\* ThreadPoolExecutor(max_workers=10): a queued call is taken when fewer
\* than max_workers calls hold a thread
WorkerFree(ex) == Running(ex) < max_workers

\* a call arrives: the server submits its handler to the executor, whose
\* queue is unbounded (bounded here by MaxWaiting)
Arrive(kind) ==
    /\ Len(waiting) < MaxWaiting
    /\ waiting' = Append(waiting, kind)
    /\ UNCHANGED << executing, loaded_csv_data, stats_call, dataset_reply,
                    projects, files, datasets, dataset_data, processing >>
    /\ ClientUnchangedDelivery

\* a worker takes the oldest queued call and runs its handler
Dispatch ==
    /\ waiting # << >>
    /\ WorkerFree(executing)
    /\ executing' = [ executing EXCEPT ![Head(waiting)] = @ + 1 ]
    /\ waiting' = Tail(waiting)
    /\ UNCHANGED << loaded_csv_data, stats_call, dataset_reply, projects, files,
                    datasets, dataset_data, processing >>
    /\ ClientUnchangedDelivery

\* a handler returns, or a stream's generator is exhausted: the worker is
\* free again
Finish(kind) ==
    /\ executing[kind] > 0
    /\ executing' = [ executing EXCEPT ![kind] = @ - 1 ]
    /\ UNCHANGED << waiting, loaded_csv_data, stats_call, dataset_reply,
                    projects, files, datasets, dataset_data, processing >>
    /\ ClientUnchangedDelivery

PoolNext ==
    \/ \E kind \in CallKinds : Arrive(kind)
    \/ Dispatch
    \/ \E kind \in CallKinds : Finish(kind)

PoolSpec == Init /\ [][PoolNext]_vars

(***************************************************************************)
(* Properties                                                              *)
(***************************************************************************)
Chunked == rpc \in ChunkedRpcs

\* no field of the request in flight is negative
NonNegativeRequest ==
    /\ request.max_points >= 0
    /\ request.resolution >= 0
    /\ request.max_points_per_second >= 0

ChunkedCompleted == Chunked /\ pc = "done" /\ status = "OK"

\* the generator ran to completion for the call in flight
Generated == rpc \in (BatchRpcs \cup ChunkedRpcs) /\ status = "OK"

FinalChunks == { i \in 1..Len(out) : out[i].is_final_chunk }

RECURSIVE SumPointsInChunk(_)
SumPointsInChunk(chunks) ==
    IF chunks = << >> THEN 0
    ELSE Head(chunks).points_in_chunk + SumPointsInChunk(Tail(chunks))

CeilDiv(a, b) == IF a % b = 0 THEN a \div b ELSE (a \div b) + 1

CeilSqrt(n) == IF IntSqrt(n) * IntSqrt(n) = n THEN IntSqrt(n) ELSE IntSqrt(n) + 1

\* C1: every chunked stream that completes without error holds exactly one
\* chunk with is_final_chunk = TRUE, and that chunk is the last one emitted,
\* also when the request yields zero points.  Stated for the requests
\* without a negative field.
C1_ExactlyOneFinalChunk ==
    (ChunkedCompleted /\ NonNegativeRequest) =>
        /\ Cardinality(FinalChunks) = 1
        /\ out[Len(out)].is_final_chunk

\* C2: in both chunked streams chunk_number is 1-based: the first chunk
\* emitted has chunk_number 1 and the chunk flagged final has
\* chunk_number = total_chunks.  Stated for the requests without a negative
\* field.
C2_ChunkNumberOneBased ==
    (Chunked /\ NonNegativeRequest) =>
        \A i \in 1..Len(out) :
            /\ (i = 1 => out[i].chunk_number = 1)
            /\ (out[i].is_final_chunk => out[i].chunk_number = out[i].total_chunks)

\* C3: each chunk's points_in_chunk equals the length of its payload and
\* lies in 1..25000, every chunk but the last carries exactly 25000 points,
\* and over a completed stream points_in_chunk sums to the number of
\* generated points.
C3_ChunkSizes ==
    Chunked =>
        /\ \A i \in 1..Len(out) :
              /\ out[i].points_in_chunk = out[i].hi - out[i].lo
              /\ out[i].points_in_chunk \in 1..chunk_size
              /\ (i < total_chunks => out[i].points_in_chunk = chunk_size)
        /\ (ChunkedCompleted => SumPointsInChunk(out) = total_points)

C3_Witness ==
    /\ ChunkedCompleted
    /\ rpc = "GetBatchDataColumnarStreamed"
    /\ total_points = 60000
    /\ Len(out) = 3
    /\ out[1].points_in_chunk = 25000
    /\ out[2].points_in_chunk = 25000
    /\ out[3].points_in_chunk = 10000

\* C4: chunks are emitted in increasing chunk_number order without gap,
\* duplicate or reordering, and the k-th chunk (k from 0) carries the points
\* at indices [k*25000, min((k+1)*25000, total)).
C4_ChunkOrder ==
    Chunked =>
        \A i \in 1..Len(out) :
            /\ (i > 1 => out[i].chunk_number = out[i-1].chunk_number + 1)
            /\ out[i].lo = (i - 1) * chunk_size
            /\ out[i].hi = Min(i * chunk_size, total_points)

C4_Witness ==
    /\ rpc = "GetBatchDataStreamed"
    /\ Len(out) = 3
    /\ out[3].lo = 50000
    /\ out[3].hi = 50001

\* C5: the total_chunks carried by every chunk, and the number of chunks of
\* a completed stream, equal ceil(total_points / 25000).
C5_TotalChunks ==
    Chunked =>
        /\ \A i \in 1..Len(out) :
              out[i].total_chunks = CeilDiv(total_points, chunk_size)
        /\ (ChunkedCompleted => Len(out) = CeilDiv(total_points, chunk_size))

C5_Witness ==
    /\ ChunkedCompleted
    /\ total_points = 25001
    /\ Len(out) = 2
    /\ out[2].total_chunks = 2

GenerationRpc == rpc \in (BatchRpcs \cup ChunkedRpcs)

\* the number of points the call in flight returns to the client
ReturnedCount ==
    IF rpc \in BatchRpcs THEN out[1].total_count ELSE total_points

\* C6: when max_points > resolution^2 the grid resolution used is
\* max(resolution, ceil(sqrt(max_points))), perfect squares included.
\* Stated for the requests without a negative field.
C6_ResolutionIsCeilSqrt ==
    (GenerationRpc /\ NonNegativeRequest /\ max_points > resolution * resolution) =>
        actual_resolution = Max(resolution, CeilSqrt(max_points))

\* C7: when max_points > resolution^2 the grid has at least max_points
\* cells and the response holds exactly max_points points, in the
\* row-oriented and in the columnar generator.
C7_GridCoversRequest ==
    (GenerationRpc /\ max_points > resolution * resolution) =>
        /\ status = "OK"
        /\ actual_resolution * actual_resolution >= max_points
        /\ total_points = max_points
        /\ ReturnedCount = max_points

C7_Witness ==
    /\ rpc = "GetBatchDataColumnar"
    /\ pc = "done"
    /\ max_points = 60000
    /\ resolution = 5
    /\ actual_resolution = 245
    /\ out[1].total_count = 60000

\* C8: when max_points <= resolution^2 the grid resolution used is the
\* requested resolution and min(max_points, resolution^2) points are
\* returned, for every max_points the handlers pass to the generators.
C8_RequestFitsGrid ==
    (GenerationRpc /\ max_points <= resolution * resolution) =>
        /\ actual_resolution = resolution
        /\ ReturnedCount = Min(max_points, resolution * resolution)

\* C9: once the client's channel has closed after N points of a StreamData
\* call, no further point is emitted (exactly N are delivered) and the call
\* ends without an error status.
C9_CancelStopsLiveStream ==
    (rpc = "StreamData" /\ closed_at # -1) =>
        /\ Len(out) = closed_at
        /\ (pc = "done" => status = "OK")

\* C10: the chunked streams poll the channel once per chunk: once the
\* client's channel has closed, no further chunk is built or emitted.
\* Stated for the requests without a negative field.
C10_NoChunkAfterClose ==
    (Chunked /\ NonNegativeRequest /\ closed_at # -1) => Len(out) = closed_at

\* C11: a StreamData call always terminates: for every rate the handler
\* accepts, a call whose channel stays open ends with no error status, and
\* only once the 30 s generation window has closed.
C11_LiveStreamEndsCleanly ==
    (rpc = "StreamData" /\ pc = "done" /\ closed_at = -1) =>
        /\ status = "OK"
        /\ ~WindowOpen(elapsed)

Columnar == rpc \in ColumnarRpcs

\* C12: in every columnar block produced (the GetBatchDataColumnar response
\* and every chunk of GetBatchDataColumnarStreamed) the arrays id, x, y, z,
\* id_value and every array of additional_data are present with one common
\* length, equal to points_in_chunk, and cover the same range of grid
\* points.
C12_ColumnarArraysAligned ==
    Columnar =>
        \A i \in 1..Len(out) :
            /\ BaseColumns \subseteq DOMAIN out[i].columns
            /\ \A name \in DOMAIN out[i].columns :
                  /\ out[i].columns[name].hi - out[i].columns[name].lo
                        = out[i].points_in_chunk
                  /\ out[i].columns[name] = out[i].columns["x"]

C12_Witness ==
    /\ rpc = "GetBatchDataColumnar"
    /\ pc = "done"
    /\ request.data_types = << "temperature", "noise" >>
    /\ max_points = 17
    /\ actual_resolution = 20
    /\ DOMAIN out[1].columns = BaseColumns \cup {"noise", "elevation"}
    /\ out[1].points_in_chunk = 17
    /\ out[1].columns["noise"] = [ lo |-> 0, hi |-> 17 ]

\* np.linspace(lo, hi, num)[k] as the fraction << numerator, denominator >>
Linspace(lo, hi, num, k) ==
    IF num <= 1 THEN << lo, 1 >>
    ELSE << lo * (num - 1) + k * (hi - lo), num - 1 >>

\* lat_mesh[i, j] and lng_mesh[i, j] of the point at index n = i * R + j of
\* the row-major walk over the grid: meshgrid(lat_grid, lng_grid) puts
\* lat_grid[j] and lng_grid[i] there
PointLatitude(reply, n) ==
    Linspace(reply.bounds.lat_min, reply.bounds.lat_max,
             reply.actual_resolution, n % reply.actual_resolution)

PointLongitude(reply, n) ==
    Linspace(reply.bounds.lng_min, reply.bounds.lng_max,
             reply.actual_resolution, n \div reply.actual_resolution)

SameFraction(p, q) == p[1] * q[2] = q[1] * p[2]

AllReceived == \A r \in BatchRpcs : replies[r].received /\ replies[r].status = "OK"

\* C13: for one and the same request GetBatchData, GetBatchDataOptimized and
\* GetBatchDataColumnar return the same number K of points, and for every
\* i < K the i-th point lies at the same latitude and longitude in the three
\* replies (compared as exact grid positions; the row encodings round them
\* to float32).  Stated for the requests without a negative field.
C13_SameBatchInAllEncodings ==
    (AllReceived /\ NonNegativeRequest) =>
        \A r1, r2 \in BatchRpcs :
            /\ replies[r1].total_count = replies[r2].total_count
            /\ \A n \in 0..(replies[r1].total_count - 1) :
                  /\ SameFraction(PointLatitude(replies[r1], n),
                                  PointLatitude(replies[r2], n))
                  /\ SameFraction(PointLongitude(replies[r1], n),
                                  PointLongitude(replies[r2], n))

\* lat_max < lat_min or lng_max < lng_min
InvertedBounds(b) == b.lat_max < b.lat_min \/ b.lng_max < b.lng_min

\* lat_max = lat_min or lng_max = lng_min
ZeroSpanBounds(b) == b.lat_max = b.lat_min \/ b.lng_max = b.lng_min

SingleResponseDone == rpc \in BatchRpcs /\ pc = "done"

\* C19: a single-response batch request (GetBatchData, GetBatchDataOptimized,
\* GetBatchDataColumnar) whose bounds are inverted or have zero span on an
\* axis fails with INTERNAL and returns no data point.  Stated for the
\* requests without a negative field.
C19_BadBoundsFail ==
    (SingleResponseDone /\ NonNegativeRequest
        /\ (InvertedBounds(request.bounds) \/ ZeroSpanBounds(request.bounds))) =>
        /\ status = "INTERNAL"
        /\ out[1].total_count = 0

\* C20: no data point delivered by a batch or chunked RPC carries a
\* non-finite value (such a point is dropped), and the call ends without an
\* error status.  Stated for the requests without a negative field.
C20_NoNonFiniteDelivered ==
    (GenerationRpc /\ NonNegativeRequest) =>
        /\ \A i \in 1..Len(out) : out[i].nonfinite = 0
        /\ status = "OK"

\* the boundary map of the last reply, if it carries one
ReplyBoundaries ==
    CASE dataset_reply.rpc = "GetDatasetData" -> dataset_reply.data_boundaries
      [] dataset_reply.rpc = "get_dataset_boundaries" -> dataset_reply.boundaries
      [] OTHER -> NoBoundaries

\* the rows stored for the dataset the last reply is about
ReplyRows == RowsOf(dataset_data, dataset_reply.dataset_id)

\* C14: for a column with raw minimum m and raw maximum M the returned range
\* is [m - p, M + p], where p = |m| * 0.1 when m = M # 0, p = 1.0 when
\* m = M = 0, and p = (M - m) * 0.05 when m # M (values in thousandths,
\* products rounded to the grid).
C14_PaddingRule ==
    \A col \in DOMAIN ReplyBoundaries :
        LET m == MinVal(ReplyRows, col).v
            M == MaxVal(ReplyRows, col).v
            p == m - ReplyBoundaries[col].min_value
        IN  /\ ReplyBoundaries[col].max_value = M + p
            /\ (m = M /\ m # 0) => p = Abs(m) \div 10
            /\ (m = M /\ m = 0) => p = 1000
            /\ m # M => p = (M - m) \div 20

\* column a holds 0 and 100, column b holds 10 twice
C14_Witness ==
    /\ dataset_reply.rpc = "GetDatasetData"
    /\ "a" \in DOMAIN dataset_reply.data_boundaries
    /\ "b" \in DOMAIN dataset_reply.data_boundaries
    /\ MinVal(ReplyRows, "a") = Finite(0)
    /\ MaxVal(ReplyRows, "a") = Finite(100000)
    /\ dataset_reply.data_boundaries["a"].min_value = -5000
    /\ dataset_reply.data_boundaries["a"].max_value = 105000
    /\ dataset_reply.data_boundaries["b"].min_value = 9000
    /\ dataset_reply.data_boundaries["b"].max_value = 11000

\* the mapping of the dataset of the last reply for a column name
MappingsOf(col) ==
    LET column_mappings == datasets[dataset_reply.dataset_id].column_mappings
    IN  { column_mappings[i] :
            i \in { j \in DOMAIN column_mappings :
                      column_mappings[j].column_name = col } }

\* the numbers among the values stored under a key
StoredNumbers(rows, col) ==
    { Thousandths(rows[k][col].n) :
        k \in { j \in RowsWith(rows, col) : rows[j][col].kind = "number" } }

\* C15: a column's boundary is computed from its stored numbers alone:
\* stored values that are non-numeric, NaN or infinite contribute nothing
\* (no 0 either), and the request does not fail.  Stated for the columns
\* mapped as numeric.
C15_NonNumericExcluded ==
    /\ dataset_reply.rpc = "GetDatasetData" => dataset_reply.status = "OK"
    /\ \A col \in DOMAIN ReplyBoundaries :
          (\E mapping \in MappingsOf(col) :
               mapping.column_type = COLUMN_TYPE_NUMERIC) =>
              LET numbers == StoredNumbers(ReplyRows, col)
              IN  /\ numbers # {}
                  /\ ReplyBoundaries[col].min_value
                        = SetMin(numbers) - Padding(SetMin(numbers), SetMax(numbers))
                  /\ ReplyBoundaries[col].max_value
                        = SetMax(numbers) + Padding(SetMin(numbers), SetMax(numbers))

\* C16: a boundary request for a dataset id that does not exist yields an
\* empty boundary map and raises nothing; GetDatasetData for such an id
\* returns an empty response without an error status.
C16_MissingDatasetIsEmpty ==
    (dataset_reply.rpc \in {"GetDatasetData", "get_dataset_boundaries"}
        /\ dataset_reply.dataset_id \notin DOMAIN datasets) =>
        /\ ReplyBoundaries = NoBoundaries
        /\ dataset_reply.rpc = "get_dataset_boundaries" => ~dataset_reply.raised
        /\ dataset_reply.rpc = "GetDatasetData" =>
              /\ dataset_reply.status = "OK"
              /\ dataset_reply.total_rows = 0
              /\ dataset_reply.rows = << >>
              /\ dataset_reply.column_mappings = << >>

\* a dataset is stored with rows, the id asked for is another one
C16_Witness ==
    /\ dataset_reply.rpc = "GetDatasetData"
    /\ dataset_reply.dataset_id = "ghost"
    /\ dataset_reply.page_size = 1
    /\ "ds1" \in DOMAIN dataset_data
    /\ Len(dataset_data["ds1"]) = MaxRows
    /\ dataset_reply.status = "OK"

\* the last reply is a boundary computation without a column list
DefaultColumnsReply ==
    \/ dataset_reply.rpc = "GetDatasetData" /\ dataset_reply.found
    \/ /\ dataset_reply.rpc = "get_dataset_boundaries"
       /\ dataset_reply.column_names = << >>
       /\ dataset_reply.dataset_id \in DOMAIN datasets

\* C17: without a column list the columns analysed are those whose mapping
\* is flagged numeric or coordinate: no boundary is computed for a column
\* flagged categorical and not coordinate.
C17_TargetsNumericOrCoordinate ==
    DefaultColumnsReply =>
        \A col \in DOMAIN ReplyBoundaries :
            \E mapping \in MappingsOf(col) :
                mapping.column_type = COLUMN_TYPE_NUMERIC \/ mapping.is_coordinate

\* C18: GetDatasetData on an existing dataset invokes the boundary
\* computation exactly when the requested page_size is <= 15000; for a
\* larger page_size no scan is made and the response has no data_boundaries.
C18_BoundariesOnlyForSmallPages ==
    (dataset_reply.rpc = "GetDatasetData" /\ dataset_reply.found) =>
        /\ dataset_reply.page_size <= 15000 =>
              /\ dataset_reply.boundary_calls = 1
              /\ dataset_reply.data_boundaries
                    = DatasetBoundaries(datasets, dataset_data,
                                        dataset_reply.dataset_id, << >>)
        /\ dataset_reply.page_size > 15000 =>
              /\ dataset_reply.boundary_calls = 0
              /\ dataset_reply.data_boundaries = NoBoundaries

\* a page of exactly 15000 rows is asked of a dataset with numbers
C18_Witness ==
    /\ dataset_reply.rpc = "GetDatasetData"
    /\ dataset_reply.found
    /\ dataset_reply.page_size = 15000
    /\ dataset_reply.boundary_calls = 1
    /\ DOMAIN dataset_reply.data_boundaries = {"a", "b"}

(***************************************************************************)
(* Failed generation                                                       *)
(***************************************************************************)
\* the variables of the delivery side are as they were before any call
DeliveryIsFresh ==
    /\ rpc = "none"
    /\ request = NoRequest
    /\ out = << >>
    /\ status = "OK"
    /\ details = ""
    /\ total_points = 0
    /\ total_chunks = 0
    /\ chunk_num = 0
    /\ actual_resolution = 0
    /\ active = TRUE
    /\ gen = "new"

\* C21: a batch call whose generation step raises (negative grid resolution)
\* delivers no partial payload: a single-response RPC returns the empty
\* response structure, a chunked RPC ends having emitted zero chunks, the
\* status is INTERNAL with a non-empty detail string, and once the call has
\* returned the service is in the state it was in before any call.
C21_FailedGenerationDeliversNothing ==
    /\ (GenerationRpc /\ actual_resolution < 0) =>
           /\ status = "INTERNAL"
           /\ details # ""
           /\ pc = "done"
           /\ (rpc \in BatchRpcs => out = << EmptyResponse(rpc) >>)
           /\ (rpc \in ChunkedRpcs => out = << >> /\ total_chunks = 0)
    /\ (pc = "idle" => DeliveryIsFresh)

\* a chunked call whose generation raised has ended with zero chunks
C21_Witness ==
    /\ rpc \in ChunkedRpcs
    /\ actual_resolution < 0
    /\ pc = "done"
    /\ status = "INTERNAL"
    /\ out = << >>

(***************************************************************************)
(* Field kinds                                                             *)
(***************************************************************************)
\* the first data type of the request in flight names no generation function
FirstKindUnknown ==
    /\ rpc # "none"
    /\ \/ request.data_types = << >>
       \/ request.data_types[1] \notin
              {"elevation", "temperature", "pressure", "noise", "sine_wave"}

\* C22: when the first data type of a request is not one of elevation,
\* temperature, pressure, noise, sine_wave, or the list is empty, every
\* payload the batch, columnar and streaming generators produced for it has
\* its primary values computed by the elevation function.
C22_UnknownKindFallsBackToElevation ==
    FirstKindUnknown =>
        \A i \in DOMAIN out :
            out[i] # EmptyResponse(rpc) => out[i].method = "elevation"

\* a live stream asked for an unknown first kind has delivered a point
C22_Witness ==
    /\ rpc = "StreamData"
    /\ request.data_types = << "humidity", "pressure", "wind" >>
    /\ Len(out) >= 1
    /\ out[1].method = "elevation"

\* the auxiliary arrays of a columnar block
AuxiliaryKeys(block) == DOMAIN block.columns \ BaseColumns

\* the kinds the request lists after its first entry, less the primary kind
RequestedAuxiliaryKinds ==
    ({ request.data_types[i] : i \in 2..Len(request.data_types) }
         \cap {"elevation", "temperature", "pressure", "noise", "sine_wave"})
        \ { PrimaryDataType(request.data_types) }

\* C23: in every columnar block the keys of additional_data are exactly the
\* additional requested field kinds that were not chosen as primary: no
\* auxiliary array for a kind the request did not list, none for the
\* primary kind.
C23_AuxiliaryArraysAsRequested ==
    (Columnar /\ status = "OK" /\ NonNegativeRequest) =>
        \A i \in DOMAIN out : AuxiliaryKeys(out[i]) = RequestedAuxiliaryKinds

\* the mappings of the dataset of the last reply that are flagged numeric or
\* coordinate and take part in processing
NumericOrCoordinateMappings ==
    LET column_mappings == datasets[dataset_reply.dataset_id].column_mappings
    IN  { column_mappings[i] :
            i \in { j \in DOMAIN column_mappings :
                      /\ column_mappings[j].column_type # COLUMN_TYPE_UNUSED
                      /\ \/ column_mappings[j].column_type = COLUMN_TYPE_NUMERIC
                         \/ column_mappings[j].is_coordinate } }

\* the key under which ProcessDataset stored the cells of a mapped column
StoredUnder(mapping) == FieldName(mapping, mapping.column_name)

\* every row holds a plain number under the key
AllNumbers(rows, key) ==
    /\ rows # << >>
    /\ \A k \in DOMAIN rows : key \in DOMAIN rows[k] /\ rows[k][key].kind = "number"

\* C27: after ProcessDataset has stored a dataset, a GetDatasetData read of
\* it with page_size <= 15000 returns a boundary for every numeric or
\* coordinate column mapping that has stored values, also when the mapping's
\* mapped_field differs from its column_name.  Stated for the columns whose
\* stored values are all plain numbers.
C27_BoundaryForEveryMappedColumn ==
    (/\ dataset_reply.rpc = "GetDatasetData"
     /\ dataset_reply.found
     /\ dataset_reply.page_size <= 15000
     /\ ~processing.running) =>
        \A mapping \in NumericOrCoordinateMappings :
            AllNumbers(ReplyRows, StoredUnder(mapping)) =>
                mapping.column_name \in DOMAIN dataset_reply.data_boundaries

\* C28: every boundary returned by get_dataset_boundaries has strictly
\* positive width and encloses the raw data: min_value < max_value,
\* min_value <= raw minimum and raw maximum <= max_value, for every dataset
\* and column, a column whose values are all equal included.
C28_BoundaryEnclosesData ==
    \A col \in DOMAIN ReplyBoundaries :
        /\ ReplyBoundaries[col].min_value < ReplyBoundaries[col].max_value
        /\ ReplyBoundaries[col].min_value <= MinVal(ReplyRows, col).v
        /\ MaxVal(ReplyRows, col).v <= ReplyBoundaries[col].max_value

\* C29: in every reachable state, also while a ProcessDataset call runs and
\* after one has failed, every dataset record in the store has total_rows
\* equal to the number of rows stored for its id.
C29_TotalRowsMatchesStoredRows ==
    \A d \in DOMAIN datasets :
        datasets[d].total_rows = Len(RowsOf(dataset_data, d))

(***************************************************************************)
(* The store as a whole                                                    *)
(***************************************************************************)
\* C25: store_dataset_data(d, rows) replaces the stored dataset wholesale:
\* afterwards the rows stored for d, read in row_index order, are exactly
\* rows (row_index 0..len(rows)-1 is the position in the sequence), no
\* earlier row of d remains, and the rows of every other dataset are as
\* they were.
C25_StoreReplacesWholesale ==
    [][ \A d \in DatabaseDatasetIds, data_rows \in DataRowsValues :
            StoreDatasetData(d, data_rows) =>
                /\ RowsOf(dataset_data', d) = data_rows
                /\ \A e \in DatabaseDatasetIds \ {d} :
                      RowsOf(dataset_data', e) = RowsOf(dataset_data, e) ]_vars

\* two rows of ds1 were replaced by one row while ds2 holds two rows
C25_Witness ==
    /\ dataset_reply.rpc = "store_dataset_data"
    /\ dataset_reply.dataset_id = "ds1"
    /\ dataset_reply.deleted = 2
    /\ Len(dataset_reply.data_rows) = 1
    /\ RowsOf(dataset_data, "ds1") = dataset_reply.data_rows
    /\ Len(RowsOf(dataset_data, "ds2")) = 2

\* C26: after delete_project(p) has returned true no file, dataset or
\* dataset row of project p remains: get_project_files(p) and
\* get_datasets_by_project(p) are empty; after delete_file(f) has returned
\* true no dataset and no dataset row of file f remains.
C26_DeleteRemovesDependents ==
    /\ (dataset_reply.rpc = "delete_project" /\ dataset_reply.deleted) =>
          /\ GetProjectFiles(dataset_reply.project_id) = {}
          /\ GetDatasetsByProject(dataset_reply.project_id) = {}
    /\ (dataset_reply.rpc = "delete_file" /\ dataset_reply.deleted) =>
          /\ DatasetsOfFiles({dataset_reply.file_id}) = {}
          /\ \A d \in DOMAIN dataset_data :
                RowsOf(dataset_data, d) # << >> => d \in DOMAIN datasets

\* the response GetLoadedDataStats gives for one SendFile result
StatsResponseFor(upload) ==
    [ has_data          |-> TRUE,
      total_points      |-> Len(upload.data),
      x_stats           |-> IF upload.data # << >> THEN Stats(upload.data)
                            ELSE NoStats,
      available_columns |-> IF upload.data # << >>
                            THEN AvailableColumns(upload.variable_mapping)
                            ELSE {} ]

\* C30: a GetLoadedDataStats response is consistent with a single ingested
\* dataset: has_data, total_points, the statistics and available_columns
\* all derive from the same SendFile result (or report that nothing is
\* loaded), also when SendFile replaces the slot while GetLoadedDataStats
\* runs; a failed SendFile leaves the slot as it was.
C30_StatsFromOneUpload ==
    /\ stats_call.pc = "done" =>
          \/ stats_call.response = EmptyStatsResponse
          \/ \E upload \in Uploads :
                stats_call.response = StatsResponseFor(upload)
    /\ (dataset_reply.rpc = "SendFile" /\ ~dataset_reply.success) =>
          \/ ~loaded_csv_data.loaded
          \/ \E upload \in Uploads : loaded_csv_data = LoadedData(upload)

\* C24: at any time at most 10 calls are executing; a stream holds its
\* worker until it ends, so at most 10 streams are active at once, and a
\* further call stays queued while 10 calls are running.
C24_AtMostTenCallsExecuting ==
    /\ Running(executing) <= 10
    /\ executing.stream <= 10
    /\ executing.unary >= 0
    /\ executing.stream >= 0

\* ten streams hold the ten workers and an eleventh call waits
C24_Witness ==
    /\ executing.stream = 10
    /\ executing.unary = 0
    /\ waiting # << >>

====
